---- MODULE Spec2Model ----
(***************************************************************************)
(* Model of audio2mp4.py: main() locates audio.* and cover.* next to the   *)
(* script, builds one ffmpeg command line and runs it.                     *)
(*                                                                         *)
(* Strings are sequences of one-character strings, so that glob matching,  *)
(* Path.suffix, str.lower and path joining are computed, not assumed.      *)
(***************************************************************************)
EXTENDS Integers, Sequences, FiniteSets, TLC

\* ------------------------------------------------------------------ bounds
\* Largest number of directory entries in the script's directory.
MaxEntries == 3
\* Largest exit status the external tool returns (0 = success).
MaxExit == 1

\* ------------------------------------------------- configuration (L7-L11)
OUTPUT_FILENAME == <<"m","o","v","i","e",".","m","p","4">>

AUDIO_EXTS ==
  { <<".","m","p","3">>, <<".","w","a","v">>, <<".","m","4","a">>,
    <<".","f","l","a","c">>, <<".","a","a","c">>, <<".","o","g","g">> }

IMAGE_EXTS ==
  { <<".","j","p","g">>, <<".","j","p","e","g">>, <<".","p","n","g">>,
    <<".","b","m","p">>, <<".","g","i","f">> }

\* Faulty variant: the pattern lacks the dot.
AudioPattern_NoDot == <<"a","u","d","i","o","*">>
\* The glob patterns of L25 and L32.
AudioPattern == <<"a","u","d","i","o",".","*">>
CoverPattern == <<"c","o","v","e","r",".","*">>

\* The labels appended to `missing` (L39, L41).
AudioLabel == "audio file (audio.mp3, audio.wav ...)"
ImageLabel == "image file (cover.jpg, cover.png ...)"

\* ------------------------------------------------------- string functions
UpperChars == <<"A","B","C","D","E","F","G","H","I","J","K","L","M",
                "N","O","P","Q","R","S","T","U","V","W","X","Y","Z">>
LowerChars == <<"a","b","c","d","e","f","g","h","i","j","k","l","m",
                "n","o","p","q","r","s","t","u","v","w","x","y","z">>

\* The lower-case letter of every upper-case letter.
UpperSet == { UpperChars[i] : i \in 1..Len(UpperChars) }
LowerTable ==
  [c \in UpperSet |->
     LowerChars[CHOOSE i \in 1..Len(UpperChars) : UpperChars[i] = c]]

LowerChar(c) == IF c \in UpperSet THEN LowerTable[c] ELSE c

\* str.lower()
Lower(s) == [i \in 1..Len(s) |-> LowerChar(s[i])]

\* str.rfind('.'), 1-based; 0 when there is no dot.
RFindDot(s) ==
  IF \E i \in 1..Len(s) : s[i] = "."
  THEN CHOOSE i \in 1..Len(s) :
         s[i] = "." /\ \A j \in (i+1)..Len(s) : s[j] # "."
  ELSE 0

\* PurePath.suffix: the last dot and what follows it, unless the dot is the
\* first or the last character of the name.
Suffix(name) ==
  LET i == RFindDot(name)
  IN  IF 1 < i /\ i < Len(name) THEN SubSeq(name, i, Len(name)) ELSE <<>>

\* fnmatch of one path component against a pattern whose only wildcard is *.
RECURSIVE FnMatchCase(_, _)
FnMatchCase(pat, s) ==
  IF pat = <<>> THEN s = <<>>
  ELSE IF Head(pat) = "*"
       THEN FnMatchCase(Tail(pat), s)
            \/ (s # <<>> /\ FnMatchCase(pat, Tail(s)))
       ELSE s # <<>> /\ Head(pat) = Head(s)
            /\ FnMatchCase(Tail(pat), Tail(s))

\* The platforms: pathlib compares glob patterns exactly on POSIX and
\* ignoring case on Windows, and joins path components with / or \.
Platforms == { "posix", "nt" }
CaseSensitive(plat) == plat = "posix"
Sep(plat) == IF plat = "posix" THEN "/" ELSE "\\"

FnMatch(pat, s, caseSens) ==
  IF caseSens THEN FnMatchCase(pat, s) ELSE FnMatchCase(Lower(pat), Lower(s))

\* ------------------------------------------------------------------ paths
\* A Path is its parent directory, its final component and the separator of
\* its platform; None is the absence marker of next(..., None).
None == [dir |-> <<>>, name |-> <<>>, sep |-> ""]

MkPath(dir, name, sep) == [dir |-> dir, name |-> name, sep |-> sep]

\* str(path): parent and name joined by one separator, which a root
\* directory already ends with.
Str(p) ==
  IF p.dir # <<>> /\ p.dir[Len(p.dir)] = p.sep
  THEN p.dir \o p.name
  ELSE p.dir \o << p.sep >> \o p.name

\* base_dir.glob(pattern): the matching entries, in enumeration order.
Glob(ents, dir, pat, plat) ==
  LET hits == SelectSeq(ents, LAMBDA n : FnMatch(pat, n, CaseSensitive(plat)))
  IN  [i \in 1..Len(hits) |-> MkPath(dir, hits[i], Sep(plat))]

\* Faulty variant: the last element is taken.
NextOrNone_Last(s) == IF s = <<>> THEN None ELSE s[Len(s)]
\* next(iterator, None)
NextOrNone(s) == IF s = <<>> THEN None ELSE Head(s)

\* Faulty variant: the extension is not looked at.
SuffixFilter_Off(paths, exts) == paths
\* (p for p in ... if p.suffix.lower() in exts)
SuffixFilter(paths, exts) ==
  SelectSeq(paths, LAMBDA p : Lower(Suffix(p.name)) \in exts)

\* L24-L27 and L31-L34
FindCandidate(ents, dir, pat, exts, plat) ==
  NextOrNone(SuffixFilter(Glob(ents, dir, pat, plat), exts))

\* Faulty variant: the image is not looked at.
MissingList_NoImage(audio, image) ==
  IF audio = None THEN <<AudioLabel>> ELSE <<>>
\* L37-L41
MissingList(audio, image) ==
  (IF audio = None THEN <<AudioLabel>> ELSE <<>>)
  \o (IF image = None THEN <<ImageLabel>> ELSE <<>>)

\* ---------------------------------------------------- command line (L59-73)
A_ffmpeg == <<"f","f","m","p","e","g">>
A_y == <<"-","y">>
A_loop == <<"-","l","o","o","p">>
A_1 == <<"1">>
A_i == <<"-","i">>
A_cv == <<"-","c",":","v">>
A_libx264 == <<"l","i","b","x","2","6","4">>
A_tune == <<"-","t","u","n","e">>
A_stillimage == <<"s","t","i","l","l","i","m","a","g","e">>
A_ca == <<"-","c",":","a">>
A_aac == <<"a","a","c">>
A_ba == <<"-","b",":","a">>
A_192k == <<"1","9","2","k">>
A_pix_fmt == <<"-","p","i","x","_","f","m","t">>
A_yuv420p == <<"y","u","v","4","2","0","p">>
A_vf == <<"-","v","f">>
A_pad == <<"p","a","d","=","c","e","i","l","(","i","w","/","2",")","*","2",
           ":","c","e","i","l","(","i","h","/","2",")","*","2">>
A_shortest == <<"-","s","h","o","r","t","e","s","t">>

\* Faulty variant: the two inputs are exchanged.
BuildCommand_Swapped(image, audio, out) ==
  << A_ffmpeg, A_y, A_loop, A_1, A_i, Str(audio), A_i, Str(image),
     A_cv, A_libx264, A_tune, A_stillimage, A_ca, A_aac, A_ba, A_192k,
     A_pix_fmt, A_yuv420p, A_vf, A_pad, A_shortest, Str(out) >>
BuildCommand(image, audio, out) ==
  << A_ffmpeg, A_y, A_loop, A_1, A_i, Str(image), A_i, Str(audio),
     A_cv, A_libx264, A_tune, A_stillimage, A_ca, A_aac, A_ba, A_192k,
     A_pix_fmt, A_yuv420p, A_vf, A_pad, A_shortest, Str(out) >>

\* ------------------------------------------------------------ environment
N_audio_mp3 == <<"a","u","d","i","o",".","m","p","3">>
N_audio_FLAC == <<"a","u","d","i","o",".","F","L","A","C">>
N_audio_txt == <<"a","u","d","i","o",".","t","x","t">>
N_audio_backup_mp3 ==
  <<"a","u","d","i","o",".","b","a","c","k","u","p",".","m","p","3">>
N_Audio_m4a == <<"A","u","d","i","o",".","m","4","a">>
N_audiobook_mp3 == <<"a","u","d","i","o","b","o","o","k",".","m","p","3">>
N_cover_png == <<"c","o","v","e","r",".","p","n","g">>
N_cover_JPG == <<"c","o","v","e","r",".","J","P","G">>
N_cover_old_png == <<"c","o","v","e","r",".","o","l","d",".","p","n","g">>

\* File names the script's directory may hold.
Names ==
  { N_audio_mp3, N_audio_FLAC, N_audio_txt, N_audio_backup_mp3,
    N_Audio_m4a, N_audiobook_mp3,
    N_cover_png, N_cover_JPG, N_cover_old_png }

\* Directory listings: distinct names in any enumeration order.
DirListings ==
  { s \in UNION { [1..n -> Names] : n \in 0..MaxEntries } :
      \A i, j \in 1..Len(s) : i # j => s[i] # s[j] }

\* Directories the script may be installed in: a root directory or one
\* below it.
ScriptDirs(plat) ==
  IF plat = "posix"
  THEN { <<"/">>, <<"/","w">> }
  ELSE { <<"C",":","\\">>, <<"C",":","\\","w">> }

\* Exit statuses of the external tool.
ExitCodes == 0..MaxExit

\* Exceptions of the library calls, by their description.
SetupFaults == { "OSError" }
InvokeFaults == { "FileNotFoundError", "PermissionError" }
NoFault == [phase |-> "none", desc |-> ""]

\* One printed line: which print statement, and what it interpolates.
Line(fmt, label, name) == [fmt |-> fmt, label |-> label, name |-> name]

\* ------------------------------------------------------------------ state
VARIABLES
  pc,            \* position of main
  scriptDir,     \* directory holding the script (environment)
  entries,       \* its listing, in enumeration order (environment)
  platform,      \* the platform the script runs on (environment)
  base_dir, audio_path, image_path, missing, output_path, cmd,  \* locals
  output,        \* lines printed so far
  invocations,   \* calls of subprocess.run
  returncode,    \* <<exit status>> of the tool, <<>> before it exits
  written,       \* whether the tool wrote output_path during this run
  fault,         \* the exception raised by a library call, if any
  acked          \* whether input() has returned

vars == << pc, scriptDir, entries, platform, base_dir, audio_path,
           image_path, missing, output_path, cmd, output, invocations,
           returncode, written, fault, acked >>

env == << scriptDir, entries, platform >>

Init ==
  /\ pc = "resolve"
  /\ platform \in Platforms
  /\ scriptDir \in ScriptDirs(platform)
  /\ entries \in DirListings
  /\ base_dir = <<>>
  /\ audio_path = None
  /\ image_path = None
  /\ missing = <<>>
  /\ output_path = None
  /\ cmd = <<>>
  /\ output = <<>>
  /\ invocations = 0
  /\ returncode = <<>>
  /\ written = FALSE
  /\ fault = NoFault
  /\ acked = FALSE

\* An exception that no try block encloses leaves main.
Propagate(phase, e) ==
  /\ fault' = [phase |-> phase, desc |-> e]
  /\ pc' = "raised"

\* L16-L19: resolve the script's directory and print it.
ResolveBaseDir ==
  /\ pc = "resolve"
  /\ base_dir' = scriptDir
  /\ output' = output \o << Line("WorkDir", "", scriptDir),
                            Line("Separator", "", <<>>) >>
  /\ pc' = "find_audio"
  /\ UNCHANGED << env, audio_path, image_path, missing, output_path, cmd,
                  invocations, returncode, written, fault, acked >>

\* L16: Path(__file__).resolve() raises.
ResolveFault(e) ==
  /\ pc = "resolve"
  /\ Propagate("setup", e)
  /\ UNCHANGED << env, base_dir, audio_path, image_path, missing,
                  output_path, cmd, output, invocations, returncode,
                  written, acked >>

\* L24-L27
FindAudio ==
  /\ pc = "find_audio"
  /\ audio_path' = FindCandidate(entries, base_dir, AudioPattern,
                                 AUDIO_EXTS, platform)
  /\ pc' = "find_image"
  /\ UNCHANGED << env, base_dir, image_path, missing, output_path, cmd,
                  output, invocations, returncode, written, fault, acked >>

\* L31-L34
FindImage ==
  /\ pc = "find_image"
  /\ image_path' = FindCandidate(entries, base_dir, CoverPattern,
                                 IMAGE_EXTS, platform)
  /\ pc' = "validate"
  /\ UNCHANGED << env, base_dir, audio_path, missing, output_path, cmd,
                  output, invocations, returncode, written, fault, acked >>

\* L24-L34: enumerating the directory raises.
FindFault(e) ==
  /\ pc \in { "find_audio", "find_image" }
  /\ Propagate("setup", e)
  /\ UNCHANGED << env, base_dir, audio_path, image_path, missing,
                  output_path, cmd, output, invocations, returncode,
                  written, acked >>

\* L37-L43
Validate ==
  /\ pc = "validate"
  /\ missing' = MissingList(audio_path, image_path)
  /\ pc' = IF missing' # <<>> THEN "report_missing" ELSE "build"
  /\ UNCHANGED << env, base_dir, audio_path, image_path, output_path, cmd,
                  output, invocations, returncode, written, fault, acked >>

\* Faulty variant: only the first entry is printed.
MissingReport_FirstOnly(m) ==
  << Line("MissingHeader", "", <<>>) >>
  \o (IF m = <<>> THEN <<>> ELSE << Line("MissingItem", m[1], <<>>) >>)
\* L44-L46
MissingReport(m) ==
  << Line("MissingHeader", "", <<>>) >>
  \o [i \in 1..Len(m) |-> Line("MissingItem", m[i], <<>>)]

ReportMissing ==
  /\ pc = "report_missing"
  /\ output' = output \o MissingReport(missing)
  /\ pc' = "input_missing"
  /\ UNCHANGED << env, base_dir, audio_path, image_path, missing,
                  output_path, cmd, invocations, returncode, written, fault,
                  acked >>

\* Faulty variant: the prompt is left out.
Input_Skipped(next) ==
  /\ pc' = next
  /\ UNCHANGED << output, acked >>
\* input(prompt): print the prompt and return once a line was read.
Input(next) ==
  /\ output' = output \o << Line("Prompt", "", <<>>) >>
  /\ acked' = TRUE
  /\ pc' = next

\* Faulty variant: the return of L48 is left out.
AfterMissing_FallThrough == "build"
\* L47-L48
AfterMissing == "done"

InputMissing ==
  /\ pc = "input_missing"
  /\ Input(AfterMissing)
  /\ UNCHANGED << env, base_dir, audio_path, image_path, missing,
                  output_path, cmd, invocations, returncode, written, fault >>

\* L51-L73
Build ==
  /\ pc = "build"
  /\ output_path' = MkPath(base_dir, OUTPUT_FILENAME, Sep(platform))
  /\ output' = output \o << Line("FoundAudio", "", audio_path.name),
                            Line("FoundImage", "", image_path.name),
                            Line("Creating", "", OUTPUT_FILENAME),
                            Line("Separator", "", <<>>) >>
  /\ cmd' = BuildCommand(image_path, audio_path, output_path')
  /\ pc' = "run"
  /\ UNCHANGED << env, base_dir, audio_path, image_path, missing,
                  invocations, returncode, written, fault, acked >>

\* L77: subprocess.run starts the tool and waits for it.
Invoke ==
  /\ pc = "run"
  /\ invocations' = invocations + 1
  /\ pc' = "running"
  /\ UNCHANGED << env, base_dir, audio_path, image_path, missing,
                  output_path, cmd, output, returncode, written, fault,
                  acked >>

\* Faulty variant: the exception is raised again.
HandleException_Reraise(e) ==
  /\ Propagate("invocation", e)
  /\ UNCHANGED output
\* L83-L84: except Exception as e
HandleException(e) ==
  /\ fault' = [phase |-> "invocation", desc |-> e]
  /\ output' = output \o << Line("UnexpectedError", e, <<>>) >>
  /\ pc' = "input_final"

\* L77, L83-L84: subprocess.run raises instead of starting the tool.
InvokeFault(e) ==
  /\ pc = "run"
  /\ invocations' = invocations + 1
  /\ HandleException(e)
  /\ UNCHANGED << env, base_dir, audio_path, image_path, missing,
                  output_path, cmd, returncode, written, acked >>

\* Faulty variant: the exit status is not looked at.
Report_NoCheck(rc, out) ==
  << Line("Rule", "", <<>>), Line("Success", "", out.name),
     Line("Rule", "", <<>>) >>
\* L77-L82: what the run prints once the tool has exited with status rc;
\* check=True turns a non-zero status into CalledProcessError.
Report(rc, out) ==
  IF rc = 0
  THEN << Line("Rule", "", <<>>), Line("Success", "", out.name),
          Line("Rule", "", <<>>) >>
  ELSE << Line("FfmpegError", "", <<>>) >>

\* L77-L82: the tool exits. A tool that succeeded wrote its output; one that
\* failed may have left a partial file.
ToolExit(rc, w) ==
  /\ pc = "running"
  /\ rc = 0 => w
  /\ returncode' = <<rc>>
  /\ written' = w
  /\ output' = output \o Report(rc, output_path)
  /\ pc' = "input_final"
  /\ UNCHANGED << env, base_dir, audio_path, image_path, missing,
                  output_path, cmd, invocations, fault, acked >>

\* L87
InputFinal ==
  /\ pc = "input_final"
  /\ Input("done")
  /\ UNCHANGED << env, base_dir, audio_path, image_path, missing,
                  output_path, cmd, invocations, returncode, written, fault >>

Next ==
  \/ ResolveBaseDir
  \/ \E e \in SetupFaults : ResolveFault(e)
  \/ FindAudio
  \/ FindImage
  \/ \E e \in SetupFaults : FindFault(e)
  \/ Validate
  \/ ReportMissing
  \/ InputMissing
  \/ Build
  \/ Invoke
  \/ \E e \in InvokeFaults : InvokeFault(e)
  \/ \E rc \in ExitCodes, w \in BOOLEAN : ToolExit(rc, w)
  \/ InputFinal

Spec == Init /\ [][Next]_vars

\* The program runs on, the tool returns and the user answers the prompt.
FairSpec == Spec /\ WF_vars(Next)

\* ================================================================ properties
\* Vocabulary of the properties, stated on the directory listing itself.
StartsWith(s, pre) == Len(s) >= Len(pre) /\ SubSeq(s, 1, Len(pre)) = pre
EndsWith(s, post) ==
  Len(s) >= Len(post) /\ SubSeq(s, Len(s) - Len(post) + 1, Len(s)) = post

\* The name as the platform's glob compares it.
Norm(s) == IF CaseSensitive(platform) THEN s ELSE Lower(s)

\* The path of an entry of the script's directory.
PathOf(n) == MkPath(scriptDir, n, Sep(platform))

P_audio == <<"a","u","d","i","o">>
P_cover == <<"c","o","v","e","r">>

\* The characters after the last dot of a name, lower-cased.
LowerExt(n) ==
  LET dots == { i \in 1..Len(n) : n[i] = "." }
      last == CHOOSE i \in dots : \A j \in dots : j <= i
  IN  IF dots = {} THEN <<>> ELSE Lower(SubSeq(n, last + 1, Len(n)))

AudioExtNames ==
  { <<"m","p","3">>, <<"w","a","v">>, <<"m","4","a">>, <<"f","l","a","c">>,
    <<"a","a","c">>, <<"o","g","g">> }
ImageExtNames ==
  { <<"j","p","g">>, <<"j","p","e","g">>, <<"p","n","g">>, <<"b","m","p">>,
    <<"g","i","f">> }

\* The name begins with the word and a dot, as the platform compares.
HasPrefix(n, word) ==
  /\ Len(n) > Len(word)
  /\ n[Len(word) + 1] = "."
  /\ Norm(SubSeq(n, 1, Len(word))) = word

\* An allowed audio.* entry, an allowed cover.* entry.
AllowedAudio(n) == HasPrefix(n, P_audio) /\ LowerExt(n) \in AudioExtNames
AllowedImage(n) == HasPrefix(n, P_cover) /\ LowerExt(n) \in ImageExtNames

AudioCandidates == { i \in 1..Len(entries) : AllowedAudio(entries[i]) }
ImageCandidates == { i \in 1..Len(entries) : AllowedImage(entries[i]) }

\* The first of a non-empty set of listing positions.
First(S) == CHOOSE i \in S : \A j \in S : i <= j

Printed(fmt) == \E i \in 1..Len(output) : output[i].fmt = fmt
Terminated == pc \in { "done", "raised" }
InSeq(x, s) == \E i \in 1..Len(s) : s[i] = x

\* ------------------------------------------------------------------- C1
\* C1: the external tool is invoked at most once per run and only when both
\* an audio candidate and an image candidate were found; when either is
\* absent the run makes no invocation, builds no command and movie.mp4 is
\* not written by it.
C1_InvokedOnlyWithBoth ==
  /\ invocations <= 1
  /\ invocations = 1 => audio_path # None /\ image_path # None
  /\ invocations = 1 => AudioCandidates # {} /\ ImageCandidates # {}
  /\ (AudioCandidates = {} \/ ImageCandidates = {}) =>
       invocations = 0 /\ ~written /\ cmd = <<>>
  /\ written => invocations = 1

C1_Witness ==
  /\ pc = "done"
  /\ InSeq(N_audio_txt, entries)
  /\ AudioCandidates = {}
  /\ ImageCandidates # {}
  /\ Printed("MissingItem")
  /\ invocations = 0

\* ------------------------------------------------------------------- C2
\* C2: the selected audio file is a directory entry whose lower-cased
\* extension is one of mp3, wav, m4a, flac, aac, ogg, the selected image one
\* whose lower-cased extension is one of jpg, jpeg, png, bmp, gif; and when
\* exactly one allowed audio.* and exactly one allowed cover.* entry exist,
\* the command of a completed run takes exactly those two files as inputs.
C2_SelectsAllowedExtensions ==
  /\ audio_path # None =>
       /\ InSeq(audio_path.name, entries)
       /\ LowerExt(audio_path.name) \in AudioExtNames
  /\ image_path # None =>
       /\ InSeq(image_path.name, entries)
       /\ LowerExt(image_path.name) \in ImageExtNames
  /\ ( /\ pc = "done"
       /\ Cardinality(AudioCandidates) = 1
       /\ Cardinality(ImageCandidates) = 1 ) =>
       /\ cmd # <<>>
       /\ cmd[6] = Str(PathOf(entries[First(ImageCandidates)]))
       /\ cmd[8] = Str(PathOf(entries[First(AudioCandidates)]))

C2_Witness ==
  /\ pc = "done"
  /\ entries = << N_audio_txt, N_audio_FLAC, N_cover_JPG >>
  /\ audio_path.name = N_audio_FLAC
  /\ image_path.name = N_cover_JPG
  /\ invocations = 1

\* ------------------------------------------------------------------- C3
\* The labels of the "missing item" lines printed so far, in order.
PrintedLabels ==
  LET items == SelectSeq(output, LAMBDA l : l.fmt = "MissingItem")
  IN  [i \in 1..Len(items) |-> items[i].label]

Validated ==
  pc \in { "report_missing", "input_missing", "build", "run", "running",
           "input_final", "done" }

\* C3: after validation the missing list holds the audio label iff no audio
\* candidate exists and the image label iff no image candidate exists, each
\* at most once; the diagnostic prints exactly the entries of the list, and
\* nothing of it is printed when the list is empty.
C3_MissingListExact ==
  /\ Validated =>
       /\ InSeq(AudioLabel, missing) <=> AudioCandidates = {}
       /\ InSeq(ImageLabel, missing) <=> ImageCandidates = {}
       /\ InSeq(AudioLabel, missing) <=> audio_path = None
       /\ InSeq(ImageLabel, missing) <=> image_path = None
       /\ Len(missing) = Cardinality({ missing[i] : i \in 1..Len(missing) })
  /\ (pc \in { "input_missing", "done" } /\ missing # <<>>) =>
       Printed("MissingHeader") /\ PrintedLabels = missing
  /\ missing = <<>> => ~Printed("MissingHeader") /\ PrintedLabels = <<>>

C3_Witness ==
  /\ pc = "done"
  /\ missing = << AudioLabel, ImageLabel >>
  /\ PrintedLabels = << AudioLabel, ImageLabel >>
  /\ entries # <<>>

\* ------------------------------------------------------------------- C4
\* Positions of the -i flags of the command.
InputFlags == { i \in 1..Len(cmd) : cmd[i] = A_i }

\* C4: every constructed command contains -y, -shortest and the pad filter
\* expression, has exactly two -i flags, the first followed by the image
\* path and the second by the audio path, and ends with the path of
\* movie.mp4 in the working directory.
C4_CommandShape ==
  cmd # <<>> =>
    /\ InSeq(A_y, cmd)
    /\ InSeq(A_shortest, cmd)
    /\ InSeq(A_pad, cmd)
    /\ Cardinality(InputFlags) = 2
    /\ LET i1 == First(InputFlags)
           i2 == First(InputFlags \ { i1 })
       IN  /\ i2 < Len(cmd)
           /\ cmd[i1 + 1] = Str(image_path)
           /\ EndsWith(cmd[i1 + 1], << Sep(platform) >> \o image_path.name)
           /\ AllowedImage(image_path.name)
           /\ cmd[i2 + 1] = Str(audio_path)
           /\ EndsWith(cmd[i2 + 1], << Sep(platform) >> \o audio_path.name)
           /\ AllowedAudio(audio_path.name)
    /\ LET last == cmd[Len(cmd)]
       IN  /\ StartsWith(last, scriptDir)
           /\ EndsWith(last, << Sep(platform) >> \o OUTPUT_FILENAME)
           /\ Len(last) <= Len(scriptDir) + 1 + Len(OUTPUT_FILENAME)

C4_Witness ==
  /\ cmd # <<>>
  /\ platform = "nt"
  /\ scriptDir = <<"C",":","\\">>
  /\ audio_path.name = N_Audio_m4a
  /\ image_path.name = N_cover_old_png
  /\ cmd[Len(cmd)] = <<"C",":","\\">> \o OUTPUT_FILENAME

\* ------------------------------------------------------------------- C5
FailurePrinted == Printed("FfmpegError") \/ Printed("UnexpectedError")
SuccessPrinted ==
  \E i \in 1..Len(output) :
    output[i].fmt = "Success" /\ output[i].name = OUTPUT_FILENAME

\* C5: once the tool has exited, status 0 gives the success banner naming
\* movie.mp4 and no failure diagnostic, a non-zero status gives the
\* tool-failure diagnostic and no success banner; banner and failure
\* diagnostic never appear in the same run.
C5_OutcomeReport ==
  /\ returncode = <<0>> =>
       SuccessPrinted /\ Printed("Success") /\ ~FailurePrinted
  /\ (returncode # <<>> /\ returncode # <<0>>) =>
       Printed("FfmpegError") /\ ~Printed("Success")
  /\ ~(Printed("Success") /\ FailurePrinted)
  /\ (Printed("Success") \/ Printed("FfmpegError")) => returncode # <<>>

C5_Witness ==
  /\ pc = "done"
  /\ returncode = <<1>>
  /\ Printed("FfmpegError")
  /\ ~Printed("Success")

\* ------------------------------------------------------------------- C6
\* The run has printed the generic diagnostic with the fault's description.
FaultReported ==
  \E i \in 1..Len(output) :
    output[i].fmt = "UnexpectedError" /\ output[i].label = fault.desc

\* C6 as stated: every exception other than a non-zero tool exit, raised
\* during setup or during the invocation, is caught, reported with its
\* description and not re-raised out of main.
C6_AllFaultsCaught ==
  fault # NoFault => pc # "raised" /\ FaultReported

\* C6 as amended: an exception raised by the invocation of the tool is
\* caught, reported with its description and not re-raised, and the run goes
\* on to the final prompt; an exception raised during setup is enclosed by
\* no try block, is reported by no diagnostic and leaves main.
C6_InvocationFaultsCaught ==
  /\ fault.phase = "invocation" =>
       /\ pc \in { "input_final", "done" }
       /\ FaultReported
       /\ invocations = 1
       /\ returncode = <<>>
  /\ fault.phase = "setup" =>
       pc = "raised" /\ ~Printed("UnexpectedError") /\ invocations = 0
  /\ pc = "raised" => fault.phase = "setup"
  /\ Printed("UnexpectedError") => fault.phase = "invocation"

C6_Witness ==
  /\ pc = "done"
  /\ fault = [phase |-> "invocation", desc |-> "FileNotFoundError"]
  /\ FaultReported
  /\ acked

\* ------------------------------------------------------------------- C7
OutcomePrinted ==
  \/ Printed("MissingHeader")
  \/ Printed("Success")
  \/ Printed("FfmpegError")
  \/ Printed("UnexpectedError")

LastLineIsPrompt ==
  output # <<>> /\ output[Len(output)].fmt = "Prompt"

\* C7 as stated: no run ends, on any outcome, without having printed its
\* message and then waited for the acknowledgment.
C7_NeverEndsUnacknowledged ==
  Terminated => acked /\ LastLineIsPrompt /\ OutcomePrinted

\* The prompt is printed once, after every other line.
OnePromptLast ==
  \A i \in 1..Len(output) : output[i].fmt = "Prompt" => i = Len(output)

\* C7 as amended: a run whose setup raises no exception prints its outcome
\* message, then waits for the acknowledgment, and returns only after it,
\* with nothing printed after the prompt; provided the tool returns and the
\* user answers, every run eventually ends. A run whose setup raises ends
\* without message and without waiting.
C7_AcknowledgedBeforeReturn ==
  /\ [](pc = "done" => acked /\ LastLineIsPrompt /\ OutcomePrinted)
  /\ [](acked => pc = "done" /\ OnePromptLast)
  /\ [](pc = "raised" => fault.phase = "setup" /\ ~acked /\ ~OutcomePrinted)
  /\ [](fault.phase # "setup" => pc # "raised")
  /\ <>Terminated

C7_Witness ==
  /\ pc = "done"
  /\ acked
  /\ LastLineIsPrompt
  /\ Printed("Success")
  /\ Len(output) = 10

\* ------------------------------------------------------------------- C8
\* The stem of a name: the name without its last extension.
Stem(name) ==
  LET i == RFindDot(name)
  IN  IF 1 < i /\ i < Len(name) THEN SubSeq(name, 1, i - 1) ELSE name

\* C8 as stated: the stem of the selected audio file is audio and the stem
\* of the selected image file is cover (whatever the case of its letters).
C8_StemIsExact ==
  /\ audio_path # None => Lower(Stem(audio_path.name)) = P_audio
  /\ image_path # None => Lower(Stem(image_path.name)) = P_cover

StemWithPrefix(name, word) ==
  LET stem == Stem(name)
  IN  \/ Norm(stem) = word
      \/ HasPrefix(stem, word)

\* C8 as amended: the name of the selected audio file begins with audio. and
\* that of the selected image file with cover. (compared as the platform's
\* glob compares, exactly on POSIX and ignoring case on Windows), so that
\* its stem is the prefix word or begins with the prefix word and a dot; a
\* name that begins with the word but not the dot (audiobook.mp3) is never
\* selected, while audio.backup.mp3 and cover.old.png are selected when
\* they are the first qualifying entry.
C8_NameHasPrefix ==
  /\ audio_path # None =>
       /\ HasPrefix(audio_path.name, P_audio)
       /\ StemWithPrefix(audio_path.name, P_audio)
       /\ audio_path.name # N_audiobook_mp3
  /\ image_path # None =>
       /\ HasPrefix(image_path.name, P_cover)
       /\ StemWithPrefix(image_path.name, P_cover)
  /\ (Validated /\ AudioCandidates # {}
        /\ entries[First(AudioCandidates)] = N_audio_backup_mp3) =>
       audio_path.name = N_audio_backup_mp3
  /\ (Validated /\ ImageCandidates # {}
        /\ entries[First(ImageCandidates)] = N_cover_old_png) =>
       image_path.name = N_cover_old_png

C8_Witness ==
  /\ pc = "done"
  /\ InSeq(N_audiobook_mp3, entries)
  /\ audio_path.name = N_audio_backup_mp3
  /\ image_path.name = N_cover_old_png
  /\ invocations = 1

\* ------------------------------------------------------------------- C9
AudioSearched == pc \notin { "resolve", "find_audio", "raised" }
ImageSearched == pc \notin { "resolve", "find_audio", "find_image", "raised" }

\* C9: when several qualifying files of one category exist, the one selected
\* is the first of them in enumeration order, no missing-input diagnostic is
\* made for that category, and a run that has candidates of both categories
\* completes with one invocation of the tool on the selected files.
C9_FirstOfSeveral ==
  /\ (AudioSearched /\ Cardinality(AudioCandidates) >= 2) =>
       /\ audio_path = PathOf(entries[First(AudioCandidates)])
       /\ ~InSeq(AudioLabel, missing)
       /\ ~InSeq(AudioLabel, PrintedLabels)
  /\ (ImageSearched /\ Cardinality(ImageCandidates) >= 2) =>
       /\ image_path = PathOf(entries[First(ImageCandidates)])
       /\ ~InSeq(ImageLabel, missing)
       /\ ~InSeq(ImageLabel, PrintedLabels)
  /\ ( /\ pc = "done"
       /\ Cardinality(AudioCandidates) >= 2 \/ Cardinality(ImageCandidates) >= 2
       /\ AudioCandidates # {}
       /\ ImageCandidates # {} ) =>
       /\ invocations = 1
       /\ fault.phase # "setup"
       /\ Cardinality(InputFlags) = 2
       /\ cmd[6] = Str(PathOf(entries[First(ImageCandidates)]))
       /\ cmd[8] = Str(PathOf(entries[First(AudioCandidates)]))

C9_Witness ==
  /\ pc = "done"
  /\ entries = << N_audio_FLAC, N_cover_png, N_audio_mp3 >>
  /\ audio_path.name = N_audio_FLAC
  /\ invocations = 1
  /\ returncode = <<0>>

\* ------------------------------------------------------------------ C10
\* The steps in their order, with the early exit after validation, the
\* three outcomes of the execution, and the end of a run whose setup raises.
StepOrder ==
  { << "resolve", "find_audio" >>, << "find_audio", "find_image" >>,
    << "find_image", "validate" >>,
    << "validate", "report_missing" >>, << "validate", "build" >>,
    << "report_missing", "input_missing" >>, << "input_missing", "done" >>,
    << "build", "run" >>, << "run", "running" >>,
    << "run", "input_final" >>, << "running", "input_final" >>,
    << "input_final", "done" >>,
    << "resolve", "raised" >>, << "find_audio", "raised" >>,
    << "find_image", "raised" >> }

OutcomeAfterTool ==
  (Printed("Success") \/ Printed("FfmpegError") \/ Printed("UnexpectedError"))
    => /\ pc \in { "input_final", "done" }
       /\ invocations = 1
       /\ (returncode # <<>> \/ fault.phase = "invocation")

ToolAfterValidation ==
  invocations > 0 =>
    /\ pc \in { "running", "input_final", "done" }
    /\ audio_path # None /\ image_path # None
    /\ missing = <<>>
    /\ cmd # <<>>
    /\ ~Printed("MissingHeader")

InOrder == << pc, pc' >> \in StepOrder

\* C10: every step of a run moves along the fixed order discover, validate,
\* build, execute, report, so that no step is repeated or revisited; the
\* tool is executed only after both discoveries, the validation and the
\* construction of the command; no outcome message is printed before the
\* invocation has finished; the run branches only after validation (early
\* exit) and on the outcome of the execution.
C10_StepsInOrder ==
  /\ [][InOrder]_vars
  /\ [](ToolAfterValidation)
  /\ [](OutcomeAfterTool)
  /\ [](returncode # <<>> => invocations = 1)

C10_Witness ==
  /\ pc = "done"
  /\ invocations = 1
  /\ returncode = <<0>>
  /\ Printed("FoundAudio")
  /\ Printed("Success")
  /\ acked

====
